---- MODULE Spec2Model ----
(***************************************************************************)
(* oxidizr: the swap-and-restore engine.                                   *)
(*                                                                         *)
(* Worker (src/utils/worker.rs) gives the filesystem primitives            *)
(* replace_file_with_symlink, backup_file, restore_file, create_symlink;   *)
(* UutilsExperiment (src/experiments/uutils.rs) composes them into         *)
(* enable() and disable().  The model is a state machine over a small      *)
(* filesystem: every std::fs call of the source is one step of a process,  *)
(* so that a failure can strike between any two calls.                     *)
(***************************************************************************)
EXTENDS Naturals, Sequences, FiniteSets, TLC

(***************************************************************************)
(* Bounds of the model.                                                    *)
(***************************************************************************)
\* enable()/disable() calls made by the caller in one behaviour
MaxCalls == 2
\* direct calls of the Worker's file operations in one behaviour
MaxWorkerCalls == 3
\* I/O failures the environment injects in one behaviour
MaxFaults == 1

(***************************************************************************)
(* Paths.  A path is its parent directory and its file name, which is what *)
(* Path::parent / Path::file_name / Path::join of the source work on.      *)
(***************************************************************************)
Join(dir, name) == [dir |-> dir, name |-> name]

UsrBin == "/usr/bin"
LocalBin == "/usr/local/bin"
CargoBin == "/usr/lib/cargo/bin"
\* the experiment's bin_directory and its own path string
BinDirPath == Join(CargoBin, "coreutils")
BinDir == BinDirPath.dir \o "/" \o BinDirPath.name

\* the unified binary of the experiment, when it has one
UnifiedPath == Join(UsrBin, "coreutils")

\* worker.rs backup_filename: /path/to/file -> /path/to/.file.oxidizr.bak
backup_filename(file) == Join(file.dir, "." \o file.name \o ".oxidizr.bak")

\* results of a path resolution that names no file
NoPath == Join("", "")
ELoop == Join("", "ELOOP")

(***************************************************************************)
(* Filesystem nodes.                                                       *)
(***************************************************************************)
Absent == [kind |-> "absent", content |-> "", mode |-> 0, dest |-> NoPath]
Directory == [kind |-> "dir", content |-> "", mode |-> 493, dest |-> NoPath]
RegularFile(content, mode) ==
    [kind |-> "file", content |-> content, mode |-> mode, dest |-> NoPath]
SymlinkTo(dest) == [kind |-> "symlink", content |-> "", mode |-> 511, dest |-> dest]

\* permission modes are numbers: 493 is 0755, 2541 is 4755 (setuid).
\* A write by an unprivileged process clears the setuid/setgid bits.
StripSpecial(mode) == mode % 1024
IsExecutable(mode) == (mode \div 64) % 2 = 1

\* The filesystem is a function from the paths that exist to their nodes.
Node(f, p) == IF p \in DOMAIN f THEN f[p] ELSE Absent
Put(f, p, node) == [q \in DOMAIN f \cup {p} |-> IF q = p THEN node ELSE f[q]]
Del(f, p) == [q \in DOMAIN f \ {p} |-> f[q]]

\* follow symlinks from p to the first path that is not a symlink
RECURSIVE FollowN(_, _, _)
FollowN(f, p, n) ==
    IF n = 0 THEN ELoop
    ELSE IF Node(f, p).kind = "symlink" THEN FollowN(f, Node(f, p).dest, n - 1)
    ELSE p
Follow(f, p) == FollowN(f, p, Cardinality(DOMAIN f) + 1)

\* stat(2): the node a path resolves to, following symlinks
Resolve(f, p) ==
    LET q == Follow(f, p)
    IN  IF q = ELoop THEN ELoop
        ELSE IF Node(f, q).kind = "absent" THEN NoPath
        ELSE q

\* std::fs::exists: Ok(true), Ok(false) when not found, Err otherwise
fs_exists(f, p) ==
    LET q == Resolve(f, p)
    IN  IF q = ELoop THEN "err" ELSE IF q = NoPath THEN "false" ELSE "true"

\* Path::is_symlink: lstat(2), false on any error
is_symlink(f, p) == Node(f, p).kind = "symlink"

Ok(f) == [ok |-> TRUE, fs |-> f]
Err(f) == [ok |-> FALSE, fs |-> f]

\* std::fs::copy(from, to): both ends follow symlinks; `to` is created or
\* truncated; the mode is set before the bytes are written, and the write
\* may clear the setuid/setgid bits (strip)
fs_copy(f, from, to, strip) ==
    LET s == Resolve(f, from)
        d == Follow(f, to)
    IN  IF s \in {NoPath, ELoop} \/ d = ELoop THEN Err(f)
        ELSE IF f[s].kind # "file" \/ Node(f, d).kind = "dir" THEN Err(f)
        ELSE Ok(Put(f, d, RegularFile(f[s].content,
                    IF strip THEN StripSpecial(f[s].mode) ELSE f[s].mode)))

\* std::fs::metadata(p).permissions(): follows symlinks
fs_metadata(f, p) ==
    LET q == Resolve(f, p)
    IN  IF q \in {NoPath, ELoop} THEN [ok |-> FALSE, mode |-> 0]
        ELSE [ok |-> TRUE, mode |-> f[q].mode]

\* fault: the permissions are never re-applied to the backup
fs_set_permissions_skipped(f, p, mode) == Ok(f)

\* std::fs::set_permissions(p, mode): chmod(2), follows symlinks
fs_set_permissions(f, p, mode) ==
    LET q == Resolve(f, p)
    IN  IF q \in {NoPath, ELoop} THEN Err(f)
        ELSE Ok([f EXCEPT ![q].mode = mode])

\* std::fs::remove_file: unlink(2), never follows the last symlink
fs_remove_file(f, p) ==
    IF Node(f, p).kind \in {"file", "symlink"}
    THEN Ok(Del(f, p))
    ELSE Err(f)

\* fault: the arguments of symlink() swapped, the link points at itself
fs_symlink_swapped(f, source, target) ==
    IF Node(f, target).kind = "absent"
    THEN Ok(Put(f, target, SymlinkTo(target)))
    ELSE Err(f)

\* std::os::unix::fs::symlink(source, target): EEXIST when anything, a
\* dangling symlink included, is at target
fs_symlink(f, source, target) ==
    IF Node(f, target).kind = "absent"
    THEN Ok(Put(f, target, SymlinkTo(source)))
    ELSE Err(f)

\* std::fs::rename(from, to): rename(2), replaces `to` atomically and
\* follows no symlink
fs_rename(f, from, to) ==
    IF Node(f, from).kind = "absent" THEN Err(f)
    ELSE IF Node(f, to).kind = "dir" /\ f[from].kind # "dir" THEN Err(f)
    ELSE IF from = to THEN Ok(f)
    ELSE Ok(Del(Put(f, to, f[from]), from))

\* Worker::which: the first directory of PATH that holds an executable file
\* of that name (symlinks followed), as the `which` crate looks it up
RECURSIVE which_from(_, _, _, _)
which_from(f, path, i, name) ==
    IF i > Len(path) THEN [ok |-> FALSE, path |-> NoPath]
    ELSE LET q == Resolve(f, Join(path[i], name))
         IN  IF q \notin {NoPath, ELoop} /\ f[q].kind = "file"
                /\ IsExecutable(f[q].mode)
             THEN [ok |-> TRUE, path |-> Join(path[i], name)]
             ELSE which_from(f, path, i + 1, name)
which(f, path, name) == which_from(f, path, 1, name)

\* uutils.rs enable/disable: the path to swap for candidate file f
existing(f, path, file) ==
    LET w == which(f, path, file.name)
    IN  IF w.ok THEN w.path ELSE Join(UsrBin, file.name)

\* Worker::list_files: the entries of the directory, or an error
list_files(f, directory) ==
    IF fs_exists(f, directory) # "true" \/ f[Resolve(f, directory)].kind # "dir"
    THEN [ok |-> FALSE, files |-> {}]
    ELSE [ok |-> TRUE,
          files |-> {p \in DOMAIN f :
                       p.dir = directory.dir \o "/" \o directory.name}]

(***************************************************************************)
(* The program state.                                                      *)
(***************************************************************************)
VARIABLES
    fs,              \* the filesystem
    PATH,            \* the directories `which` searches, in order
    unified_binary,  \* UutilsExperiment.unified_binary: Option<PathBuf>
    pc,              \* each process's position in the code
    top,             \* each process's top-level call
    arg,             \* the arguments of the top-level call
    cur,             \* source/target of the Worker call in progress
    meta,            \* backup_file's `metadata` local
    todo,            \* the files of the `for f in files` loop not yet visited
    result,          \* the top-level call's Result: "none", "ok", "err"
    log,             \* what the top-level call has done so far, in order
    pre,             \* the filesystem when the top-level call started
    history,         \* the top-level calls the process has finished, in order
    calls,           \* top-level calls started so far
    faults,          \* I/O failures injected so far, and by whose current call
    sys              \* the System, and the last package or distribution call on it

vars == <<fs, PATH, unified_binary, pc, top, arg, cur, meta, todo, result,
          log, pre, history, calls, faults, sys>>

Procs == {1, 2}

None == [some |-> FALSE, path |-> NoPath]
Some(p) == [some |-> TRUE, path |-> p]

package == "rust-coreutils"
bin_directory == BinDirPath

NoArg == [source |-> NoPath, target |-> NoPath]

\* one entry of the log: a command run, or a Worker call on a (and b), and
\* whether it succeeded
Event(op, a, b, ok) == [op |-> op, a |-> a, b |-> b, cmd |-> << >>, ok |-> ok]
Ran(cmd, ok) == [op |-> "run", a |-> NoPath, b |-> NoPath, cmd |-> cmd, ok |-> ok]

\* fault: enable() runs the remove command
install_command_removes(pkg) == <<"apt-get", "remove", "-y", pkg>>

\* Worker::install_package / remove_package: the command handed to run()
install_command(pkg) == <<"apt-get", "install", "-y", pkg>>
remove_command(pkg) == <<"apt-get", "remove", "-y", pkg>>

(***************************************************************************)
(* Strings the program inspects byte by byte (command output, release      *)
(* strings) are sequences of byte values.                                  *)
(***************************************************************************)
\* "20.04", "24.04", "24.10", "9.10"
R2004 == <<50, 48, 46, 48, 52>>
R2404 == <<50, 52, 46, 48, 52>>
R2410 == <<50, 52, 46, 49, 48>>
R910 == <<57, 46, 49, 48>>
\* the line feed a command ends its output with
NewLine == <<10>>

\* the bytes command output is made of here: line feed, '.', '0', '2', '4',
\* '9', and 255, which no UTF-8 string contains
Alphabet == {10, 46, 48, 50, 52, 57, 255}
\* all strings of at most n bytes
Strings(n) == UNION {[1..k -> Alphabet] : k \in 0..n}

\* String::from_utf8(bytes) is Ok
from_utf8_ok(bytes) == \A i \in 1..Len(bytes) : bytes[i] < 128

\* str::trim: leading and trailing whitespace removed
is_whitespace(b) == b \in {9, 10, 11, 12, 13, 32}
RECURSIVE trim_start(_)
trim_start(str) ==
    IF str # << >> /\ is_whitespace(Head(str)) THEN trim_start(Tail(str)) ELSE str
RECURSIVE trim_end(_)
trim_end(str) ==
    IF str # << >> /\ is_whitespace(str[Len(str)])
    THEN trim_end(SubSeq(str, 1, Len(str) - 1))
    ELSE str
trim(str) == trim_end(trim_start(str))

\* Ord for str: the bytes compared left to right, a proper prefix is less
RECURSIVE string_cmp(_, _)
string_cmp(a, b) ==
    IF a = << >> THEN (IF b = << >> THEN "eq" ELSE "lt")
    ELSE IF b = << >> THEN "gt"
    ELSE IF Head(a) < Head(b) THEN "lt"
    ELSE IF Head(a) > Head(b) THEN "gt"
    ELSE string_cmp(Tail(a), Tail(b))

\* fault: the shorter release is the older one ("9.10" before "24.04")
string_ge_by_length(a, b) ==
    IF Len(a) # Len(b) THEN Len(a) > Len(b) ELSE string_cmp(a, b) # "lt"

\* a.release >= b on Strings
string_ge(a, b) == string_cmp(a, b) # "lt"

\* what Worker::run gets from a command: it cannot be spawned, it exits
\* non-zero, or it succeeds with some bytes on stdout
Unavailable == [status |-> "unavailable", stdout |-> << >>]
NonZero == [status |-> "nonzero", stdout |-> << >>]
Success(stdout) == [status |-> "ok", stdout |-> stdout]
NoOutput == [status |-> "none", stdout |-> << >>]
\* Worker::run returns Ok(output)
run_ok(output) == output.status = "ok"

\* a System (worker.rs 232-235) with the experiment's package and first
\* supported release, before any package or distribution call
SystemOf(dist, pkg, first) ==
    [linux_distribution |-> dist, package |-> pkg,
     first_supported_release |-> first,
     op |-> "none", cmd |-> << >>, id |-> NoOutput, release |-> NoOutput,
     result |-> "none"]

(***************************************************************************)
(* Initial filesystems.  A candidate's /usr/bin entry starts in one of     *)
(* these shapes; the package's own files are in place or not.              *)
(***************************************************************************)
TargetKinds == {"absent", "file", "setuid", "shadowed", "link_other", "link_dangling"}

Original(name) == "original " \o name
Replacement(name) == "uutils " \o name

\* the entries of the filesystem for one name whose /usr/bin entry is of kind k
TargetEntries(name, k) ==
    LET t == Join(UsrBin, name)
        l == Join(LocalBin, name)
    IN  CASE k = "absent" -> << >>
          [] k = "file" -> (t :> RegularFile(Original(name), 493))
          [] k = "setuid" -> (t :> RegularFile(Original(name), 2541))
          [] k = "shadowed" -> (t :> RegularFile(Original(name), 493))
                               @@ (l :> RegularFile("local " \o name, 493))
          [] k = "link_other" -> (t :> SymlinkTo(l))
                                 @@ (l :> RegularFile("local " \o name, 493))
          [] k = "link_dangling" -> (t :> SymlinkTo(l))

RECURSIVE Merge(_, _)
Merge(S, g) ==
    IF S = {} THEN << >>
    ELSE LET x == CHOOSE y \in S : TRUE IN g[x] @@ Merge(S \ {x}, g)

\* the replacement package's files under bin_directory
PackageEntries(cands) ==
    (BinDirPath :> Directory)
    @@ [p \in {Join(BinDir, n) : n \in cands} |-> RegularFile(Replacement(p.name), 493)]

\* the hosts the experiment starts on: PATH, the candidates shipped in
\* bin_directory, and the shape of each candidate's /usr/bin entry
Host(path, kinds) == [PATH |-> path, kinds |-> kinds]
Hosts ==
    {Host(<<UsrBin>>, [date |-> k]) :
        k \in {"absent", "file", "setuid", "link_other", "link_dangling"}}
    \cup {Host(<<LocalBin, UsrBin>>, [date |-> k]) : k \in {"shadowed", "link_other"}}
    \cup {Host(<<BinDir, UsrBin>>, [date |-> "file"]),
          Host(<<UsrBin>>, [date |-> "file", sort |-> "absent"]),
          Host(<<UsrBin>>, [date |-> "setuid", sort |-> "file"]),
          Host(<<UsrBin>>, [date |-> "file", sort |-> "absent", ls |-> "setuid"]),
          Host(<<UsrBin>>, [date |-> "file", coreutils |-> "absent"])}

HostFS(h, installed, unified) ==
    LET cands == DOMAIN h.kinds
    IN  Merge(cands, [n \in cands |-> TargetEntries(n, h.kinds[n])])
        @@ (IF installed THEN PackageEntries(cands) ELSE << >>)
        @@ (IF installed /\ unified.some
            THEN (unified.path :> RegularFile(Replacement(unified.path.name), 493))
            ELSE << >>)

InitProcs ==
    /\ pc = [p \in Procs |-> "idle"]
    /\ top = [p \in Procs |-> "none"]
    /\ arg = [p \in Procs |-> NoArg]
    /\ cur = [p \in Procs |-> NoArg]
    /\ meta = [p \in Procs |-> 0]
    /\ todo = [p \in Procs |-> {}]
    /\ result = [p \in Procs |-> "none"]
    /\ log = [p \in Procs |-> << >>]
    /\ pre = [p \in Procs |-> << >>]
    /\ history = [p \in Procs |-> << >>]
    /\ calls = 0
    /\ faults = [total |-> 0, during |-> [p \in Procs |-> FALSE]]

\* The package manager's own file changes are not the program's: the
\* replacement package's files are in place from the start, or are not.
Init ==
    /\ InitProcs
    /\ sys = SystemOf("Ubuntu", package, R2404)
    /\ unified_binary \in {None, Some(UnifiedPath)}
    /\ \E h \in Hosts, installed \in BOOLEAN :
         /\ PATH = h.PATH
         /\ fs = HostFS(h, installed, unified_binary)

(***************************************************************************)
(* Control flow shared by the steps.                                       *)
(***************************************************************************)
env == <<PATH, unified_binary, sys>>
frame == <<top, arg, pre, history, calls>>

\* whether the environment may fail the next call
Faulty == IF faults.total < MaxFaults THEN BOOLEAN ELSE {FALSE}
Inject(self, inj) ==
    faults' = IF inj
              THEN [total |-> faults.total + 1,
                    during |-> [faults.during EXCEPT ![self] = TRUE]]
              ELSE faults

\* where control goes when function fn returns Ok(())
RECURSIVE After(_, _)
After(self, fn) ==
    CASE fn = "backup_file" ->
            IF top[self] = "backup_file" THEN "done" ELSE "replace_remove"
      [] fn = "remove_file" ->
            IF top[self] = "remove_file" THEN "done" ELSE "remove_file_if_exists"
      [] fn = "create_symlink" ->
            IF top[self] = "create_symlink" THEN "done"
            ELSE After(self, "replace_file_with_symlink")
      [] fn = "replace_file_with_symlink" ->
            IF top[self] = "enable" THEN "enable_loop" ELSE "done"
      [] fn = "restore_file" ->
            IF top[self] = "disable" THEN "disable_loop" ELSE "done"
      [] OTHER -> "done"

\* go on at label; reaching "done" this way is the call returning Ok(())
Goto(self, label) ==
    /\ pc' = [pc EXCEPT ![self] = label]
    /\ result' = [result EXCEPT ![self] = IF label = "done" THEN "ok" ELSE @]

\* fault: enable() logs a failed swap and goes on with the next file
Raise_swallowed(self) ==
    IF top[self] = "enable" /\ pc[self] \notin {"enable_install", "enable_list"}
    THEN /\ pc' = [pc EXCEPT ![self] = "enable_loop"]
         /\ UNCHANGED result
    ELSE /\ pc' = [pc EXCEPT ![self] = "done"]
         /\ result' = [result EXCEPT ![self] = "err"]

\* the `?` operator on an Err: every caller up the stack returns it
Raise(self) ==
    /\ pc' = [pc EXCEPT ![self] = "done"]
    /\ result' = [result EXCEPT ![self] = "err"]

Record(self, e) == log' = [log EXCEPT ![self] = Append(@, e)]
\* the positions of the log entries of one kind
OpsIn(l, op) == {i \in 1..Len(l) : l[i].op = op}

\* the (source, target) pairs replace_file_with_symlink was called with
Swaps(l) ==
    {[source |-> l[i].a, target |-> l[i].b] :
        i \in {j \in 1..Len(l) : l[j].op = "replace_file_with_symlink"}}

\* the call a process has just finished, as history keeps it
Finished(self) ==
    [top |-> top[self], arg |-> arg[self], result |-> result[self],
     pre |-> pre[self], swaps |-> Swaps(log[self])]

\* the last n entries of sequence s
LastN(s, n) == IF Len(s) <= n THEN s ELSE SubSeq(s, Len(s) - n + 1, Len(s))

\* the caller starts a top-level call; history keeps the last `keep` calls
Begin(self, name, a, label, bound, keep) ==
    /\ pc[self] \in {"idle", "done"}
    /\ calls < bound
    /\ calls' = calls + 1
    /\ history' = [history EXCEPT ![self] =
                     IF pc[self] = "done"
                     THEN LastN(Append(@, Finished(self)), keep) ELSE @]
    /\ top' = [top EXCEPT ![self] = name]
    /\ arg' = [arg EXCEPT ![self] = a]
    /\ cur' = [cur EXCEPT ![self] = a]
    /\ pre' = [pre EXCEPT ![self] = fs]
    /\ log' = [log EXCEPT ![self] = << >>]
    /\ result' = [result EXCEPT ![self] = "none"]
    /\ todo' = [todo EXCEPT ![self] = {}]
    /\ meta' = [meta EXCEPT ![self] = 0]
    /\ pc' = [pc EXCEPT ![self] = label]
    /\ faults' = [faults EXCEPT !.during[self] = FALSE]
    /\ UNCHANGED <<fs, env>>

(***************************************************************************)
(* Worker::replace_file_with_symlink (worker.rs 175-187)                   *)
(***************************************************************************)
\* if fs::exists(&target)?
replace_exists(self) ==
    /\ pc[self] = "replace_exists"
    /\ \E inj \in Faulty :
         LET e == IF inj THEN "err" ELSE fs_exists(fs, cur[self].target)
         IN  /\ Inject(self, inj)
             /\ Record(self, Event("replace_file_with_symlink", cur[self].source,
                                   cur[self].target, e # "err"))
             /\ IF e = "err" THEN Raise(self)
                ELSE IF e = "true" THEN Goto(self, "replace_is_symlink")
                ELSE Goto(self, "remove_file_if_exists")
    /\ UNCHANGED <<fs, env, frame, cur, meta, todo>>

\* fault: the target is deleted without a backup being made first
replace_is_symlink_no_backup(self) ==
    /\ pc[self] = "replace_is_symlink"
    /\ IF is_symlink(fs, cur[self].target)
       THEN Goto(self, After(self, "replace_file_with_symlink"))
       ELSE Goto(self, "replace_remove")
    /\ UNCHANGED <<fs, env, frame, cur, meta, todo, log, faults>>

\* if target.is_symlink() { trace!("Skipping ..."); return Ok(()) }
replace_is_symlink(self) ==
    /\ pc[self] = "replace_is_symlink"
    /\ IF is_symlink(fs, cur[self].target)
       THEN Goto(self, After(self, "replace_file_with_symlink"))
       ELSE Goto(self, "backup_copy")
    /\ UNCHANGED <<fs, env, frame, cur, meta, todo, log, faults>>

\* fs::remove_file(&target)?
replace_remove(self) ==
    /\ pc[self] = "replace_remove"
    /\ \E inj \in Faulty :
         LET r == IF inj THEN Err(fs) ELSE fs_remove_file(fs, cur[self].target)
         IN  /\ Inject(self, inj)
             /\ fs' = r.fs
             /\ Record(self, Event("remove_file", cur[self].target, NoPath, r.ok))
             /\ IF r.ok THEN Goto(self, After(self, "remove_file")) ELSE Raise(self)
    /\ UNCHANGED <<env, frame, cur, meta, todo>>

(***************************************************************************)
(* Worker::backup_file (worker.rs 191-202)                                 *)
(***************************************************************************)
\* fs::copy(&file, &backup_file)?  A copy that fails may leave a truncated
\* backup_file behind.
backup_copy(self) ==
    /\ pc[self] = "backup_copy"
    /\ \E inj \in Faulty, strip \in BOOLEAN, partial \in BOOLEAN :
         LET file == cur[self].target
             copied == fs_copy(fs, file, backup_filename(file), strip)
             r == IF ~inj THEN copied
                  ELSE IF partial /\ copied.ok
                  THEN Err(Put(fs, Follow(fs, backup_filename(file)),
                               RegularFile("", StripSpecial(Node(fs, Resolve(fs, file)).mode))))
                  ELSE Err(fs)
         IN  /\ Inject(self, inj)
             /\ fs' = r.fs
             /\ Record(self, Event("backup_file", file, NoPath, r.ok))
             /\ IF r.ok THEN Goto(self, "backup_metadata") ELSE Raise(self)
    /\ UNCHANGED <<env, frame, cur, meta, todo>>

\* fault: the permissions are read from the copy, not from the original
backup_metadata_of_backup(self) ==
    /\ pc[self] = "backup_metadata"
    /\ \E inj \in Faulty :
         LET m == IF inj THEN [ok |-> FALSE, mode |-> 0]
                  ELSE fs_metadata(fs, backup_filename(cur[self].target))
         IN  /\ Inject(self, inj)
             /\ meta' = [meta EXCEPT ![self] = m.mode]
             /\ Record(self, Event("metadata", cur[self].target, NoPath, m.ok))
             /\ IF m.ok THEN Goto(self, "backup_set_permissions") ELSE Raise(self)
    /\ UNCHANGED <<fs, env, frame, cur, todo>>

\* let metadata = fs::metadata(&file)?
backup_metadata(self) ==
    /\ pc[self] = "backup_metadata"
    /\ \E inj \in Faulty :
         LET m == IF inj THEN [ok |-> FALSE, mode |-> 0]
                  ELSE fs_metadata(fs, cur[self].target)
         IN  /\ Inject(self, inj)
             /\ meta' = [meta EXCEPT ![self] = m.mode]
             /\ Record(self, Event("metadata", cur[self].target, NoPath, m.ok))
             /\ IF m.ok THEN Goto(self, "backup_set_permissions") ELSE Raise(self)
    /\ UNCHANGED <<fs, env, frame, cur, todo>>

\* fs::set_permissions(&backup_file, metadata.permissions())?
backup_set_permissions(self) ==
    /\ pc[self] = "backup_set_permissions"
    /\ \E inj \in Faulty :
         LET r == IF inj THEN Err(fs)
                  ELSE fs_set_permissions(fs, backup_filename(cur[self].target),
                                          meta[self])
         IN  /\ Inject(self, inj)
             /\ fs' = r.fs
             /\ Record(self, Event("set_permissions",
                                   backup_filename(cur[self].target), NoPath, r.ok))
             /\ IF r.ok THEN Goto(self, After(self, "backup_file")) ELSE Raise(self)
    /\ UNCHANGED <<env, frame, cur, meta, todo>>

(***************************************************************************)
(* Worker::create_symlink and remove_file_if_exists (worker.rs 221-226,    *)
(* 265-270)                                                                *)
(***************************************************************************)
\* remove_file_if_exists(&target)?: if fs::exists(file)? { fs::remove_file(file)? }
remove_file_if_exists(self) ==
    /\ pc[self] = "remove_file_if_exists"
    /\ \E inj \in Faulty :
         LET e == IF inj THEN "err" ELSE fs_exists(fs, cur[self].target)
             r == IF e = "err" THEN Err(fs)
                  ELSE IF e = "true" THEN fs_remove_file(fs, cur[self].target)
                  ELSE Ok(fs)
         IN  /\ Inject(self, inj)
             /\ fs' = r.fs
             /\ Record(self, Event(IF e = "true" THEN "remove_file"
                                   ELSE "remove_file_if_exists",
                                   cur[self].target, NoPath, r.ok))
             /\ IF r.ok THEN Goto(self, "symlink_link") ELSE Raise(self)
    /\ UNCHANGED <<env, frame, cur, meta, todo>>

\* std::os::unix::fs::symlink(source, target)?
symlink_link(self) ==
    /\ pc[self] = "symlink_link"
    /\ \E inj \in Faulty :
         LET r == IF inj THEN Err(fs)
                  ELSE fs_symlink(fs, cur[self].source, cur[self].target)
         IN  /\ Inject(self, inj)
             /\ fs' = r.fs
             /\ Record(self, Event("create_symlink", cur[self].source,
                                   cur[self].target, r.ok))
             /\ IF r.ok THEN Goto(self, After(self, "create_symlink")) ELSE Raise(self)
    /\ UNCHANGED <<env, frame, cur, meta, todo>>

(***************************************************************************)
(* Worker::restore_file (worker.rs 206-217)                                *)
(***************************************************************************)
\* fault: a missing backup is an error
no_backup_found_bails(self) == Raise(self)

\* else { warn!("No backup found for '{}', skipping restore") }  Ok(())
no_backup_found(self) == Goto(self, After(self, "restore_file"))

\* if fs::exists(&backup_file)?
restore_exists(self) ==
    /\ pc[self] = "restore_exists"
    /\ \E inj \in Faulty :
         LET e == IF inj THEN "err"
                  ELSE fs_exists(fs, backup_filename(cur[self].target))
         IN  /\ Inject(self, inj)
             /\ Record(self, Event("restore_file", cur[self].target, NoPath,
                                   e # "err"))
             /\ IF e = "err" THEN Raise(self)
                ELSE IF e = "true" THEN Goto(self, "restore_rename")
                ELSE no_backup_found(self)
    /\ UNCHANGED <<fs, env, frame, cur, meta, todo>>

\* fault: a failed rename is logged and the caller goes on
restore_rename_ignored(self) ==
    /\ pc[self] = "restore_rename"
    /\ \E inj \in Faulty :
         LET r == IF inj THEN Err(fs)
                  ELSE fs_rename(fs, backup_filename(cur[self].target),
                                 cur[self].target)
         IN  /\ Inject(self, inj)
             /\ fs' = r.fs
             /\ Record(self, Event("rename", backup_filename(cur[self].target),
                                   cur[self].target, r.ok))
             /\ Goto(self, After(self, "restore_file"))
    /\ UNCHANGED <<env, frame, cur, meta, todo>>

\* fs::rename(&backup_file, &file)?
restore_rename(self) ==
    /\ pc[self] = "restore_rename"
    /\ \E inj \in Faulty :
         LET r == IF inj THEN Err(fs)
                  ELSE fs_rename(fs, backup_filename(cur[self].target),
                                 cur[self].target)
         IN  /\ Inject(self, inj)
             /\ fs' = r.fs
             /\ Record(self, Event("rename", backup_filename(cur[self].target),
                                   cur[self].target, r.ok))
             /\ IF r.ok THEN Goto(self, After(self, "restore_file")) ELSE Raise(self)
    /\ UNCHANGED <<env, frame, cur, meta, todo>>

(***************************************************************************)
(* UutilsExperiment::enable (uutils.rs 61-83)                              *)
(***************************************************************************)
\* source and target of the swap of candidate file f
swap_of(f) ==
    [source |-> IF unified_binary.some THEN unified_binary.path ELSE f,
     target |-> existing(fs, PATH, f)]

\* fault: the Result of install_package is dropped instead of returned
enable_install_unchecked(self) ==
    /\ pc[self] = "enable_install"
    /\ \E inj \in Faulty :
         /\ Inject(self, inj)
         /\ Record(self, Ran(install_command(package), ~inj))
         /\ Goto(self, "enable_list")
    /\ UNCHANGED <<fs, env, frame, cur, meta, todo>>

\* self.system.install_package(&self.package)?
enable_install(self) ==
    /\ pc[self] = "enable_install"
    /\ \E inj \in Faulty :
         /\ Inject(self, inj)
         /\ Record(self, Ran(install_command(package), ~inj))
         /\ IF inj THEN Raise(self) ELSE Goto(self, "enable_list")
    /\ UNCHANGED <<fs, env, frame, cur, meta, todo>>

\* let files = self.system.list_files(self.bin_directory.clone())?
enable_list(self) ==
    /\ pc[self] = "enable_list"
    /\ \E inj \in Faulty :
         LET l == IF inj THEN [ok |-> FALSE, files |-> {}]
                  ELSE list_files(fs, bin_directory)
         IN  /\ Inject(self, inj)
             /\ todo' = [todo EXCEPT ![self] = l.files]
             /\ Record(self, Event("list_files", bin_directory, NoPath, l.ok))
             /\ IF l.ok THEN Goto(self, "enable_loop") ELSE Raise(self)
    /\ UNCHANGED <<fs, env, frame, cur, meta>>

\* for f in files { existing = which(filename) or /usr/bin/filename;
\*                  replace_file_with_symlink(.., existing)? }  Ok(())
\* read_dir yields the files in no particular order.
enable_loop(self) ==
    /\ pc[self] = "enable_loop"
    /\ \E f \in (IF todo[self] = {} THEN {NoPath} ELSE todo[self]) :
         IF todo[self] = {}
         THEN /\ Goto(self, "done")
              /\ UNCHANGED <<cur, todo>>
         ELSE /\ cur' = [cur EXCEPT ![self] = swap_of(f)]
              /\ todo' = [todo EXCEPT ![self] = @ \ {f}]
              /\ Goto(self, "replace_exists")
    /\ UNCHANGED <<fs, env, frame, meta, log, faults>>

(***************************************************************************)
(* UutilsExperiment::disable (uutils.rs 86-102)                            *)
(***************************************************************************)
\* let files = self.system.list_files(self.bin_directory.clone())?
disable_list(self) ==
    /\ pc[self] = "disable_list"
    /\ \E inj \in Faulty :
         LET l == IF inj THEN [ok |-> FALSE, files |-> {}]
                  ELSE list_files(fs, bin_directory)
         IN  /\ Inject(self, inj)
             /\ todo' = [todo EXCEPT ![self] = l.files]
             /\ Record(self, Event("list_files", bin_directory, NoPath, l.ok))
             /\ IF l.ok THEN Goto(self, "disable_loop") ELSE Raise(self)
    /\ UNCHANGED <<fs, env, frame, cur, meta>>

\* fault: the package is removed after the first restore_file
disable_loop_once(self) ==
    /\ pc[self] = "disable_loop"
    /\ \E f \in (IF todo[self] = {} THEN {NoPath} ELSE todo[self]) :
         IF todo[self] = {} \/ OpsIn(log[self], "restore_file") # {}
         THEN /\ Goto(self, "disable_remove")
              /\ UNCHANGED <<cur, todo>>
         ELSE /\ cur' = [cur EXCEPT ![self] =
                           [source |-> NoPath, target |-> existing(fs, PATH, f)]]
              /\ todo' = [todo EXCEPT ![self] = @ \ {f}]
              /\ Goto(self, "restore_exists")
    /\ UNCHANGED <<fs, env, frame, meta, log, faults>>

\* for f in files { existing = ...; self.system.restore_file(existing)? }
disable_loop(self) ==
    /\ pc[self] = "disable_loop"
    /\ \E f \in (IF todo[self] = {} THEN {NoPath} ELSE todo[self]) :
         IF todo[self] = {}
         THEN /\ Goto(self, "disable_remove")
              /\ UNCHANGED <<cur, todo>>
         ELSE /\ cur' = [cur EXCEPT ![self] =
                           [source |-> NoPath, target |-> existing(fs, PATH, f)]]
              /\ todo' = [todo EXCEPT ![self] = @ \ {f}]
              /\ Goto(self, "restore_exists")
    /\ UNCHANGED <<fs, env, frame, meta, log, faults>>

\* self.system.remove_package(&self.package)?  Ok(())
disable_remove(self) ==
    /\ pc[self] = "disable_remove"
    /\ \E inj \in Faulty :
         /\ Inject(self, inj)
         /\ Record(self, Ran(remove_command(package), ~inj))
         /\ IF inj THEN Raise(self) ELSE Goto(self, "done")
    /\ UNCHANGED <<fs, env, frame, cur, meta, todo>>

(***************************************************************************)
(* The caller of the experiment: enable() and disable(), one at a time.    *)
(***************************************************************************)
enable(self) == Begin(self, "enable", NoArg, "enable_install", MaxCalls, 1)
disable(self) == Begin(self, "disable", NoArg, "disable_list", MaxCalls, 1)

WorkerStep(self) ==
    \/ replace_exists(self)
    \/ replace_is_symlink(self)
    \/ backup_copy(self)
    \/ backup_metadata(self)
    \/ backup_set_permissions(self)
    \/ replace_remove(self)
    \/ remove_file_if_exists(self)
    \/ symlink_link(self)
    \/ restore_exists(self)
    \/ restore_rename(self)

Next ==
    \E self \in {1} :
        \/ enable(self)
        \/ disable(self)
        \/ enable_install(self)
        \/ enable_list(self)
        \/ enable_loop(self)
        \/ disable_list(self)
        \/ disable_loop(self)
        \/ disable_remove(self)
        \/ WorkerStep(self)

Spec == Init /\ [][Next]_vars

(***************************************************************************)
(* The Worker's file operations called directly, one at a time, on one     *)
(* target path.                                                            *)
(***************************************************************************)
WorkerTarget == Join(UsrBin, "date")
WorkerSource == UnifiedPath
WorkerArg == [source |-> WorkerSource, target |-> WorkerTarget]

WorkerTargetKinds ==
    {"absent", "file", "setuid", "link_source", "link_other", "link_dangling"}

WorkerFS(kind, sourceExists, stale) ==
    (IF kind = "link_source" THEN (WorkerTarget :> SymlinkTo(WorkerSource))
     ELSE TargetEntries(WorkerTarget.name, kind))
    @@ (IF sourceExists
        THEN (WorkerSource :> RegularFile(Replacement(WorkerSource.name), 493))
        ELSE << >>)
    @@ (IF stale
        THEN (backup_filename(WorkerTarget)
                 :> RegularFile("stale " \o WorkerTarget.name, 493))
        ELSE << >>)

InitWorker ==
    /\ InitProcs
    /\ sys = SystemOf("Ubuntu", package, R2404)
    /\ PATH = <<UsrBin>>
    /\ unified_binary = None
    /\ \E kind \in WorkerTargetKinds, sourceExists \in BOOLEAN, stale \in BOOLEAN :
         fs = WorkerFS(kind, sourceExists, stale)

replace_file_with_symlink(self) ==
    Begin(self, "replace_file_with_symlink", WorkerArg, "replace_exists",
          MaxWorkerCalls, 2)
backup_file(self) ==
    Begin(self, "backup_file", WorkerArg, "backup_copy", MaxWorkerCalls, 2)
restore_file(self) ==
    Begin(self, "restore_file", WorkerArg, "restore_exists", MaxWorkerCalls, 2)
create_symlink(self) ==
    Begin(self, "create_symlink", WorkerArg, "remove_file_if_exists",
          MaxWorkerCalls, 2)
\* the caller deletes the file itself: fs::remove_file(&target)
remove_file(self) ==
    Begin(self, "remove_file", WorkerArg, "replace_remove", MaxWorkerCalls, 2)

NextWorker ==
    \E self \in {1} :
        \/ replace_file_with_symlink(self)
        \/ backup_file(self)
        \/ restore_file(self)
        \/ create_symlink(self)
        \/ remove_file(self)
        \/ WorkerStep(self)

WorkerSpec == InitWorker /\ [][NextWorker]_vars

(***************************************************************************)
(* Two callers of replace_file_with_symlink at once, each calling it once  *)
(* on the same regular-file target.  Nothing in worker.rs takes a lock, so *)
(* their file operations interleave freely.                                *)
(***************************************************************************)
RaceTargetKinds == {"file", "setuid"}

InitRace ==
    /\ InitProcs
    /\ sys = SystemOf("Ubuntu", package, R2404)
    /\ PATH = <<UsrBin>>
    /\ unified_binary = None
    /\ \E kind \in RaceTargetKinds, sourceExists \in BOOLEAN, stale \in BOOLEAN :
         fs = WorkerFS(kind, sourceExists, stale)

replace_file_with_symlink_once(self) ==
    /\ top[self] = "none"
    /\ replace_file_with_symlink(self)

ReplaceStep(self) ==
    \/ replace_exists(self)
    \/ replace_is_symlink(self)
    \/ backup_copy(self)
    \/ backup_metadata(self)
    \/ backup_set_permissions(self)
    \/ replace_remove(self)
    \/ remove_file_if_exists(self)
    \/ symlink_link(self)

NextRace ==
    \E self \in Procs :
        \/ replace_file_with_symlink_once(self)
        \/ ReplaceStep(self)

RaceSpec == InitRace /\ [][NextRace]_vars

(***************************************************************************)
(* The System's package and distribution calls, one at a time, on every    *)
(* supported distribution.                                                 *)
(***************************************************************************)
\* longest command output enumerated byte by byte
MaxLen == 2

Distributions == {"Ubuntu", "AzureLinux", "Fedora", "ArchLinux"}
Packages == {"rust-coreutils", "rust-findutils"}
FirstReleases == {R2404, <<57>>}

\* the outcomes of `lsb_release -is` and of `lsb_release -rs`
IdOutcomes ==
    {Unavailable, NonZero, Success(<<85>> \o NewLine), Success(<<255>>)}
ReleaseOutcomes ==
    {Unavailable, NonZero}
    \cup {Success(r \o NewLine) : r \in {R2004, R2404, R2410, R910}}
    \cup {Success(r) : r \in Strings(MaxLen)}

\* SupportedLinuxDistribution::gen_check_installed_command
gen_check_installed_command(dist, pkg) ==
    CASE dist \in {"Ubuntu", "AzureLinux"} -> <<"dpkg-query", "-s", pkg>>
      [] dist = "Fedora" -> <<"rpm", "-q", pkg>>
      [] dist = "ArchLinux" -> <<"pacman", "-Qi", pkg>>

\* Worker::update_package_lists: the command handed to run()
update_command == <<"apt-get", "update">>

\* Worker::distribution: both commands run, then both outputs decoded
distribution(id, release) ==
    IF ~run_ok(id) \/ ~run_ok(release) THEN [ok |-> FALSE, release |-> << >>]
    ELSE IF ~from_utf8_ok(id.stdout) \/ ~from_utf8_ok(release.stdout)
    THEN [ok |-> FALSE, release |-> << >>]
    ELSE [ok |-> TRUE, release |-> trim(release.stdout)]

machine == <<fs, PATH, unified_binary, pc, top, arg, cur, meta, todo, result,
             log, pre, history, calls, faults>>

\* the call op on the System: the command it ran and what it returned
Called(op, cmd, id, release, res) ==
    /\ sys' = [sys EXCEPT !.op = op, !.cmd = cmd, !.id = id,
                          !.release = release, !.result = res]
    /\ UNCHANGED machine

\* UutilsExperiment::check_compatible: .expect() panics on an Err.  When
\* `lsb_release -is` fails, `lsb_release -rs` is never run.
check_compatible ==
    \E id \in IdOutcomes :
    \E release \in (IF run_ok(id) THEN ReleaseOutcomes ELSE {NoOutput}) :
        LET d == distribution(id, release)
        IN  Called("check_compatible", <<"lsb_release", "-rs">>, id, release,
                   IF ~d.ok THEN "panic"
                   ELSE IF string_ge(d.release, sys.first_supported_release)
                   THEN "true" ELSE "false")

\* UutilsExperiment::check_installed over Worker::check_installed
check_installed ==
    \E output \in {Unavailable, NonZero, Success(<< >>)} :
        Called("check_installed",
               gen_check_installed_command(sys.linux_distribution, sys.package),
               NoOutput, output,
               IF run_ok(output) THEN "true" ELSE "false")

\* Worker::install_package
install_package ==
    \E output \in {Unavailable, NonZero, Success(<< >>)} :
        Called("install_package", install_command(sys.package), NoOutput, output,
               IF run_ok(output) THEN "ok" ELSE "err")

\* Worker::remove_package
remove_package ==
    \E output \in {Unavailable, NonZero, Success(<< >>)} :
        Called("remove_package", remove_command(sys.package), NoOutput, output,
               IF run_ok(output) THEN "ok" ELSE "err")

\* Worker::update_package_lists
update_package_lists ==
    \E output \in {Unavailable, NonZero, Success(<< >>)} :
        Called("update_package_lists", update_command, NoOutput, output,
               IF run_ok(output) THEN "ok" ELSE "err")

InitSystem ==
    /\ InitProcs
    /\ fs = << >>
    /\ PATH = <<UsrBin>>
    /\ unified_binary = None
    /\ \E dist \in Distributions, pkg \in Packages, first \in FirstReleases :
         sys = SystemOf(dist, pkg, first)

NextSystem ==
    \/ check_compatible
    \/ check_installed
    \/ install_package
    \/ remove_package
    \/ update_package_lists

SystemSpec == InitSystem /\ [][NextSystem]_vars

(***************************************************************************)
(* Properties.                                                             *)
(***************************************************************************)
\* the process whose calls the sequential specifications follow
Caller == CHOOSE p \in Procs : \A q \in Procs : p <= q
Done(name) == pc[Caller] = "done" /\ top[Caller] = name
Succeeded(name) == Done(name) /\ result[Caller] = "ok"
\* no I/O failure was injected into the current call
Undisturbed == ~faults.during[Caller]
\* the call finished just before the current one, and the one before that
Last == history[Caller][Len(history[Caller])]
LastButOne == history[Caller][Len(history[Caller]) - 1]
After1(name) == Len(history[Caller]) >= 1 /\ Last.top = name
HasBackup(f, p) == backup_filename(p) \in DOMAIN f

\* enable() then disable(), both successful, with nothing in between
EnabledThenDisabled ==
    /\ Succeeded("disable")
    /\ After1("enable")
    /\ Last.result = "ok"

\* C1: after a successful enable() followed by a successful disable(), every
\* target enable() resolved is back in its state before enable(): a regular
\* file has its content and mode again, a target that did not exist is not
\* left as a symlink to the replacement, and no backup file remains.
C1_Reversible ==
    EnabledThenDisabled =>
        \A sw \in Last.swaps :
            /\ Node(Last.pre, sw.target).kind = "file"
                  => Node(fs, sw.target) = Node(Last.pre, sw.target)
            /\ Node(Last.pre, sw.target).kind = "absent"
                  => ~(Node(fs, sw.target).kind = "symlink"
                       /\ Node(fs, sw.target).dest = sw.source)
            /\ ~HasBackup(fs, sw.target)

\* backup_file(F), deletion of F, restore_file(F), all successful, on a
\* regular file F
BackedUpDeletedRestored ==
    /\ Succeeded("restore_file")
    /\ Len(history[Caller]) >= 2
    /\ Last.top = "remove_file" /\ Last.result = "ok"
    /\ LastButOne.top = "backup_file" /\ LastButOne.result = "ok"
    /\ Node(LastButOne.pre, WorkerTarget).kind = "file"

\* C2: backup_file(F), then deletion of F, then restore_file(F) leaves at F
\* a file with the content and the mode (setuid/setgid bits included) F had
\* before the backup, and the backup path no longer exists.
C2_RoundTrip ==
    BackedUpDeletedRestored =>
        /\ Node(fs, WorkerTarget) = Node(LastButOne.pre, WorkerTarget)
        /\ ~HasBackup(fs, WorkerTarget)

C2_Witness ==
    /\ BackedUpDeletedRestored
    /\ Node(fs, WorkerTarget).kind = "file"
    /\ Node(fs, WorkerTarget).mode # StripSpecial(Node(fs, WorkerTarget).mode)

\* C3: a second replace_file_with_symlink(source, target) right after a
\* successful first one returns success, makes no second backup and leaves
\* the filesystem as the first call left it, whether or not source exists.
C3_Idempotent ==
    (/\ Done("replace_file_with_symlink")
     /\ Undisturbed
     /\ After1("replace_file_with_symlink")
     /\ Last.result = "ok")
    => /\ result[Caller] = "ok"
       /\ fs = pre[Caller]
       /\ OpsIn(log[Caller], "backup_file") = {}

\* C4 as stated: whenever replace_file_with_symlink(source, target) returns
\* success, target is a symlink whose destination is source.
C4_LinksToSource ==
    Succeeded("replace_file_with_symlink")
        => Node(fs, WorkerTarget) = SymlinkTo(WorkerSource)

\* C4: whenever replace_file_with_symlink(source, target) returns success,
\* target is a symlink; its destination is source when target was absent or
\* a regular file before the call, and target is left as it was when it was
\* a symlink already.
C4_Postcondition ==
    Succeeded("replace_file_with_symlink") =>
        IF is_symlink(pre[Caller], WorkerTarget)
        THEN Node(fs, WorkerTarget) = Node(pre[Caller], WorkerTarget)
        ELSE Node(fs, WorkerTarget) = SymlinkTo(WorkerSource)

C4_Witness ==
    /\ Succeeded("replace_file_with_symlink")
    /\ Node(pre[Caller], WorkerTarget).kind = "file"
    /\ Node(fs, WorkerTarget) = SymlinkTo(WorkerSource)
    /\ HasBackup(fs, WorkerTarget)

\* C5: restore_file(F) called when no backup exists for F returns success
\* and changes nothing: F keeps its kind, content and mode, or stays absent.
C5_MissingBackup ==
    (/\ Done("restore_file")
     /\ Undisturbed
     /\ ~HasBackup(pre[Caller], WorkerTarget))
    => /\ result[Caller] = "ok"
       /\ fs = pre[Caller]

C5_Witness ==
    /\ Succeeded("restore_file")
    /\ ~HasBackup(pre[Caller], WorkerTarget)
    /\ Node(fs, WorkerTarget).kind = "file"

\* what the current enable()/disable() call found in bin_directory, and the
\* path it resolves each file to
Candidates == list_files(pre[Caller], bin_directory).files
FileOps == {"backup_file", "metadata", "set_permissions", "remove_file",
            "remove_file_if_exists", "create_symlink", "rename"}
\* the positions of the log where a step of a swap or a restore failed
FailedOps(l) == {i \in 1..Len(l) : ~l[i].ok /\ l[i].op \notin {"run", "list_files"}}

\* C6: every enable() issues exactly one package-install command, first and
\* completed before any backup, delete or symlink operation; it issues no
\* other package command and restores no file.
C6_InstallFirst ==
    top[Caller] = "enable" =>
        LET l == log[Caller]
        IN  /\ pc[Caller] = "enable_install" => l = << >>
            /\ pc[Caller] # "enable_install" =>
                  /\ Len(l) >= 1
                  /\ l[1].op = "run"
                  /\ l[1].cmd = <<"apt-get", "install", "-y", "rust-coreutils">>
                  /\ OpsIn(l, "run") = {1}
            /\ \A i \in 1..Len(l) : l[i].op \in FileOps => (i > 1 /\ l[1].ok)
            /\ OpsIn(l, "restore_file") \cup OpsIn(l, "rename") = {}

C6_Witness ==
    /\ Succeeded("enable")
    /\ OpsIn(log[Caller], "backup_file") # {}
    /\ OpsIn(log[Caller], "create_symlink") # {}

\* C7 as stated: every disable() issues exactly one package-remove command.
C7_AlwaysRemoves ==
    Done("disable") =>
        \E i \in 1..Len(log[Caller]) :
            /\ OpsIn(log[Caller], "run") = {i}
            /\ log[Caller][i].cmd = <<"apt-get", "remove", "-y", "rust-coreutils">>

\* C7: a disable() whose directory listing and restores all succeed issues
\* exactly one package-remove command, and a disable() that fails before
\* then issues none; the command is the last thing disable() does, after a
\* restore has been attempted for the resolved target of every candidate;
\* disable() creates no symlink and makes no backup.
C7_RemoveLast ==
    top[Caller] = "disable" =>
        LET l == log[Caller]
        IN  /\ \A i \in OpsIn(l, "run") :
                  /\ i = Len(l)
                  /\ l[i].cmd = <<"apt-get", "remove", "-y", "rust-coreutils">>
                  /\ OpsIn(l, "list_files") = {1} /\ l[1].ok
                  /\ FailedOps(l) = {}
                  /\ Cardinality(OpsIn(l, "restore_file")) = Cardinality(Candidates)
                  /\ {l[j].a.name : j \in OpsIn(l, "restore_file")}
                        = {f.name : f \in Candidates}
            /\ Cardinality(OpsIn(l, "run")) <= 1
            /\ Succeeded("disable") => OpsIn(l, "run") # {}
            /\ (pc[Caller] = "done" /\ (FailedOps(l) # {} \/ OpsIn(l, "list_files") = {}
                                        \/ ~l[1].ok))
                  => OpsIn(l, "run") = {}
            /\ OpsIn(l, "create_symlink") \cup OpsIn(l, "backup_file")
                  \cup OpsIn(l, "replace_file_with_symlink") = {}

C7_Witness ==
    /\ Succeeded("disable")
    /\ Cardinality(OpsIn(log[Caller], "rename")) >= 2

\* C8: after a successful enable(), every candidate f of bin_directory was
\* swapped at existing(f), every symlink made is at such a path and links to
\* the unified binary when there is one and to the candidate itself when
\* there is none, and no link is made at a candidate's own directory entry.
C8_FanIn ==
    Succeeded("enable") =>
        LET l == log[Caller]
        IN  /\ \A f \in Candidates :
                  \E i \in OpsIn(l, "replace_file_with_symlink") :
                      l[i].b = existing(pre[Caller], PATH, f)
            /\ \A i \in OpsIn(l, "create_symlink") :
                  /\ \E f \in Candidates :
                        /\ l[i].b = existing(pre[Caller], PATH, f)
                        /\ l[i].a = IF unified_binary.some THEN unified_binary.path
                                    ELSE f
                  /\ l[i].b \notin Candidates

\* enable() ended by the failure of a swap
SwapFailed ==
    /\ top[Caller] = "enable"
    /\ FailedOps(log[Caller]) # {}
\* the swaps of the current enable() before the last one
SwapsBefore ==
    LET l == log[Caller]
        r == OpsIn(l, "replace_file_with_symlink")
    IN  {l[i].b : i \in {j \in r : \E k \in r : k > j}}
\* the targets the current enable() has swapped so far
SwapTargets ==
    {log[Caller][i].b : i \in OpsIn(log[Caller], "replace_file_with_symlink")}
\* the targets of the candidates the current enable() has not reached
LaterTargets == {existing(pre[Caller], PATH, f) : f \in todo[Caller]}
\* the target t shares its own path or its backup path with the target or
\* the backup path of another candidate
Aliased(t) ==
    \E u \in (SwapTargets \cup LaterTargets) \ {t} :
        {t, backup_filename(t)} \cap {u, backup_filename(u)} # {}

\* C9 as stated: when the swap of a candidate fails, enable() returns the
\* error at once, every candidate processed before it has its symlink in
\* place and its backup present, and every candidate after it has its target
\* unchanged and no backup made.
C9_AsStated ==
    SwapFailed =>
        /\ pc[Caller] = "done" /\ result[Caller] = "err"
        /\ \A t \in SwapsBefore : is_symlink(fs, t) /\ HasBackup(fs, t)
        /\ \A t \in LaterTargets :
              /\ Node(fs, t) = Node(pre[Caller], t)
              /\ Node(fs, backup_filename(t))
                    = Node(pre[Caller], backup_filename(t))

\* C9: when the swap of a candidate fails, enable() returns that error at
\* once and starts no further swap. For every candidate whose target and
\* backup path are not also the target or backup path of another candidate:
\* one processed before the failure remains swapped (its target is a
\* symlink, and the backup holds the original if the target was a regular
\* file), and one after the failure is untouched (no step of a swap has
\* acted on its target or its backup path, and both are unchanged).
C9_NoRollback ==
    SwapFailed =>
        LET l == log[Caller]
        IN  /\ pc[Caller] = "done" /\ result[Caller] = "err"
            /\ FailedOps(l) = {Len(l)}
            /\ Cardinality(todo[Caller])
                  = Cardinality(Candidates)
                    - Cardinality(OpsIn(l, "replace_file_with_symlink"))
            /\ \A t \in SwapsBefore :
                  ~Aliased(t) =>
                      /\ is_symlink(fs, t)
                      /\ Node(pre[Caller], t).kind = "file"
                            => Node(fs, backup_filename(t)) = Node(pre[Caller], t)
            /\ \A t \in LaterTargets :
                  ~Aliased(t) =>
                      /\ Node(fs, t) = Node(pre[Caller], t)
                      /\ Node(fs, backup_filename(t))
                            = Node(pre[Caller], backup_filename(t))
                      /\ \A i \in 1..Len(l) :
                            /\ l[i].op \in FileOps \ {"create_symlink"}
                                  => l[i].a \notin {t, backup_filename(t)}
                            /\ l[i].b # t

C9_Witness ==
    /\ SwapFailed
    /\ pc[Caller] = "done"
    /\ \E t \in SwapsBefore : ~Aliased(t) /\ HasBackup(fs, t)
    /\ \E t \in LaterTargets : ~Aliased(t) /\ Node(fs, t).kind = "file"

\* C10: if the package-install command of enable() fails, enable() returns
\* an error and the filesystem is unchanged: bin_directory is not listed, no
\* backup is made, no target is deleted and no symlink is created.
C10_InstallFailure ==
    (/\ top[Caller] = "enable"
     /\ Len(log[Caller]) >= 1
     /\ ~log[Caller][1].ok)
    => /\ pc[Caller] = "done"
       /\ result[Caller] = "err"
       /\ Len(log[Caller]) = 1
       /\ fs = pre[Caller]

C10_Witness ==
    /\ Done("enable")
    /\ ~log[Caller][1].ok
    /\ Candidates # {}
    /\ \E f \in Candidates : Node(fs, existing(fs, PATH, f)).kind = "file"

\* C11: check_installed() and check_compatible() never raise: the first
\* returns false when its command cannot be run or exits non-zero, the second
\* resolves to false when the distribution cannot be determined.
C11_NeverRaise ==
    /\ sys.op = "check_installed" =>
          /\ sys.result \in {"true", "false"}
          /\ ~run_ok(sys.release) => sys.result = "false"
    /\ sys.op = "check_compatible" =>
          /\ sys.result \in {"true", "false"}
          /\ (\/ ~run_ok(sys.id) \/ ~run_ok(sys.release)
              \/ ~from_utf8_ok(sys.id.stdout) \/ ~from_utf8_ok(sys.release.stdout))
                => sys.result = "false"

\* a >= b in lexicographic order: b is a prefix of a, or a has the greater
\* byte at the first position where they differ
LexGe(a, b) ==
    \/ Len(a) >= Len(b) /\ \A j \in 1..Len(b) : a[j] = b[j]
    \/ \E i \in 1..Len(a) :
          /\ i <= Len(b)
          /\ \A j \in 1..(i - 1) : a[j] = b[j]
          /\ a[i] > b[i]

\* the distribution was determined and check_compatible() returned
Compared == sys.op = "check_compatible" /\ sys.result # "panic"

\* C13: check_compatible() returns true exactly when the release string is
\* >= first_supported_release in lexicographic order; with "24.04" it is
\* false for "20.04" and true for "24.04", "24.10" and "9.10".
C13_Gate ==
    Compared =>
        /\ sys.result = "true"
              <=> LexGe(trim(sys.release.stdout), sys.first_supported_release)
        /\ sys.first_supported_release = R2404 =>
              /\ sys.release = Success(R2004 \o NewLine) => sys.result = "false"
              /\ sys.release \in {Success(R2404 \o NewLine), Success(R2410 \o NewLine),
                                  Success(R910 \o NewLine)}
                    => sys.result = "true"

C13_Witness ==
    /\ Compared
    /\ sys.first_supported_release = R2404
    /\ sys.release = Success(R910 \o NewLine)
    /\ sys.result = "true"

\* the package manager of each supported distribution, and the program it
\* asks whether a package is installed
PackageManagerOf(dist) ==
    CASE dist = "Ubuntu" -> "apt-get"
      [] dist = "AzureLinux" -> "tdnf"
      [] dist = "Fedora" -> "dnf"
      [] dist = "ArchLinux" -> "pacman"
QueryOf(manager) ==
    CASE manager = "apt-get" -> "dpkg-query"
      [] manager \in {"tdnf", "dnf"} -> "rpm"
      [] manager = "pacman" -> "pacman"

\* C14: the install, remove, update-index and check-installed commands are
\* those of the package manager selected from the host distribution, for
\* every supported distribution and every package.
C14_Selection ==
    LET manager == PackageManagerOf(sys.linux_distribution)
    IN  /\ sys.op \in {"install_package", "remove_package", "update_package_lists"}
              => sys.cmd[1] = manager
        /\ sys.op = "check_installed" => sys.cmd[1] = QueryOf(manager)

\* disable() was called with no swap active: enable() was never run, or
\* the call before was a disable() that succeeded
NoSwapActive ==
    \/ history[Caller] = << >>
    \/ Last.top = "disable" /\ Last.result = "ok"

\* C12: disable() with no swap active returns success, leaves the
\* filesystem as it was, creates no symlink and no backup, and issues the
\* remove command; a second disable() leaves what the first one left.
C12_Idempotent ==
    (Done("disable") /\ Undisturbed /\ NoSwapActive) =>
        /\ result[Caller] = "ok"
        /\ fs = pre[Caller]
        /\ OpsIn(log[Caller], "create_symlink") \cup OpsIn(log[Caller], "backup_file")
              = {}
        /\ \E i \in 1..Len(log[Caller]) :
              /\ OpsIn(log[Caller], "run") = {i}
              /\ log[Caller][i].cmd = <<"apt-get", "remove", "-y", "rust-coreutils">>

\* replace_file_with_symlink is running, or has ended, on a target that was
\* a regular file when it was called
ReplacingFile ==
    /\ top[Caller] = "replace_file_with_symlink"
    /\ Node(pre[Caller], WorkerTarget).kind = "file"
\* some entry of kind op before position i of the log succeeded
DoneBefore(l, op, i) == \E j \in 1..(i - 1) : l[j].op = op /\ l[j].ok

\* C15: in replace_file_with_symlink on a regular file the backup (copy and
\* permissions) completes before the original is deleted and the deletion
\* before the symlink is created; in every state of the call, also after a
\* failure at any step, the original content with its original mode is at
\* the target path or at the backup path.
C15_Ordering ==
    ReplacingFile =>
        LET l == log[Caller]
            original == Node(pre[Caller], WorkerTarget)
        IN  /\ \A i \in OpsIn(l, "remove_file") :
                  DoneBefore(l, "backup_file", i) /\ DoneBefore(l, "set_permissions", i)
            /\ \A i \in OpsIn(l, "create_symlink") : DoneBefore(l, "remove_file", i)
            /\ \/ Node(fs, WorkerTarget) = original
               \/ Node(fs, backup_filename(WorkerTarget)) = original

C15_Witness ==
    /\ ReplacingFile
    /\ Done("replace_file_with_symlink") /\ result[Caller] = "err"
    /\ Node(fs, WorkerTarget).kind = "absent"
    /\ Node(pre[Caller], WorkerTarget).mode # StripSpecial(Node(pre[Caller], WorkerTarget).mode)
    /\ Node(fs, backup_filename(WorkerTarget)) = Node(pre[Caller], WorkerTarget)

\* C16: create_symlink(source, target) overwrites whatever is at target: a
\* regular file, a symlink to an existing path or a stale symlink is removed
\* first and the call succeeds with target a symlink to source.
C16_Overwrites ==
    (/\ Done("create_symlink")
     /\ Undisturbed
     /\ Node(pre[Caller], WorkerTarget).kind \in {"file", "symlink"})
    => /\ result[Caller] = "ok"
       /\ Node(fs, WorkerTarget) = SymlinkTo(WorkerSource)

\* the names of the candidates disable() has called restore_file for
RestoreAttempts ==
    {log[Caller][j].a.name : j \in OpsIn(log[Caller], "restore_file")}

\* C17 as stated: restore_file is called for the target of every candidate,
\* also when an earlier restore fails, and the remove command comes last.
C17_AllAttempted ==
    (Done("disable") /\ OpsIn(log[Caller], "list_files") = {1} /\ log[Caller][1].ok)
    => /\ RestoreAttempts = {f.name : f \in Candidates}
       /\ \E i \in OpsIn(log[Caller], "run") : i = Len(log[Caller])

\* C17: disable() calls restore_file once for the resolved target of each
\* candidate, going on after a missing backup, until a restore returns an
\* error: that error ends disable() at once, with the remaining candidates
\* not attempted and no remove command; the remove command is issued only
\* after a restore was attempted, without error, for every candidate.
C17_UntilFailure ==
    top[Caller] = "disable" =>
        LET l == log[Caller]
            attempted == {f \in Candidates : f \notin todo[Caller]}
        IN  /\ (/\ OpsIn(l, "list_files") # {} /\ l[1].ok
                /\ pc[Caller] # "restore_exists") =>
                  /\ Cardinality(OpsIn(l, "restore_file")) = Cardinality(attempted)
                  /\ RestoreAttempts = {f.name : f \in attempted}
            /\ FailedOps(l) # {} =>
                  /\ pc[Caller] = "done" /\ result[Caller] = "err"
                  /\ FailedOps(l) = {Len(l)}
                  /\ OpsIn(l, "run") = {}
            /\ \A i \in OpsIn(l, "run") :
                  /\ todo[Caller] = {}
                  /\ \A j \in OpsIn(l, "restore_file") \cup OpsIn(l, "rename") :
                        j < i /\ l[j].ok
            /\ Succeeded("disable") =>
                  RestoreAttempts = {f.name : f \in Candidates}

C17_Witness ==
    /\ Done("disable") /\ result[Caller] = "err"
    /\ todo[Caller] # {}
    /\ \E j \in OpsIn(log[Caller], "rename") : ~log[Caller][j].ok
    /\ \E j \in OpsIn(log[Caller], "rename") : log[Caller][j].ok

\* the two invocations ran at once: each started before the other had made
\* the target a symlink, which is the last step of an invocation
Overlapping ==
    \A p \in Procs :
        top[p] = "replace_file_with_symlink" /\ ~is_symlink(pre[p], WorkerTarget)
\* the regular file that was at the target before any invocation is, content
\* and mode, at the target path or at the backup path
OriginalHeld ==
    \/ \A p \in Procs : top[p] = "none"
    \/ \E p \in Procs :
          /\ top[p] # "none"
          /\ Node(pre[p], WorkerTarget).kind = "file"
          /\ \/ Node(fs, WorkerTarget) = Node(pre[p], WorkerTarget)
             \/ Node(fs, backup_filename(WorkerTarget)) = Node(pre[p], WorkerTarget)

\* C18: concurrent invocations are not protected.  With no I/O failure and
\* an existing link source, an invocation of replace_file_with_symlink on a
\* regular file that does not overlap another one succeeds and keeps the
\* original at the target or the backup path; the original is lost, or an
\* invocation fails, only when two invocations on the same target
\* interleave - and then it can happen.
C18_Unprotected ==
    (/\ faults.total = 0
     /\ fs_exists(fs, WorkerSource) = "true"
     /\ ~OriginalHeld \/ \E p \in Procs : result[p] = "err")
    => Overlapping

\* both invocations returned with no I/O failure and the original content is
\* neither at the target nor at the backup path
C18_Witness ==
    /\ faults.total = 0
    /\ Overlapping
    /\ \A p \in Procs : pc[p] = "done"
    /\ ~OriginalHeld
    /\ Node(fs, backup_filename(WorkerTarget)).kind = "file"
    /\ Node(fs, backup_filename(WorkerTarget)).content
          = Replacement(WorkerSource.name)

\* the filesystem before the caller's first call, kept for two calls
InitialFS ==
    IF top[Caller] = "none" THEN fs
    ELSE IF history[Caller] = << >> THEN pre[Caller]
    ELSE history[Caller][1].pre
\* the paths enable() or disable() resolve a candidate to, on any PATH
TargetPaths ==
    {p \in DOMAIN InitialFS :
        \E d \in {PATH[i] : i \in 1..Len(PATH)} \cup {UsrBin} : p.dir = d}

\* C19: over any sequence of enable() and disable() calls, each succeeding
\* or failing at any step, every target path that was a regular file at the
\* start has that file, content and mode, at the target path or at its
\* backup path.
C19_Preserved ==
    calls <= 2 =>
        \A t \in TargetPaths :
            InitialFS[t].kind = "file" =>
                \/ Node(fs, t) = InitialFS[t]
                \/ Node(fs, backup_filename(t)) = InitialFS[t]

\* C20: enable() never creates a self-referential symlink: the target it
\* passes to replace_file_with_symlink differs from the link destination,
\* and no symlink it creates points at its own path.
C20_NoSelfLink ==
    top[Caller] = "enable" =>
        LET l == log[Caller]
        IN  /\ \A i \in OpsIn(l, "replace_file_with_symlink") : l[i].a # l[i].b
            /\ \A i \in OpsIn(l, "create_symlink") :
                  l[i].ok => Node(fs, l[i].b) # SymlinkTo(l[i].b)
====
